---------------------------- MODULE Spec2Model ----------------------------
(***************************************************************************)
(* Model of the SSC PYQ quiz relay (src/server.js): the topic validator,   *)
(* the JSON extractor, the question-set validator, the model fallback      *)
(* engine and the POST /generate handler.                                  *)
(*                                                                         *)
(* Representation.                                                         *)
(*  - A JavaScript value is a record [t, s, h, a, o]: t is its type tag,   *)
(*    s the text of a string, h a number counted in halves (h = 3 is 1.5), *)
(*    a the elements of an array, o the [k, v] members of an object.       *)
(*  - A topic string is a sequence of runs [ch, n]: n characters of class  *)
(*    "a" (allow-listed, not whitespace), "sp" (whitespace) or "x" (not    *)
(*    allow-listed).                                                       *)
(*  - A text (model output, error message) is a sequence of tokens; a      *)
(*    substring test is a test for a token.                                *)
(*                                                                         *)
(* Specifications.  Spec: one request, the upstream answering from the     *)
(* sample sets; FairSpec: Spec, every await settling; StallSpec: Spec,     *)
(* only the handler and the abort timer scheduled; ConcSpec: a request in  *)
(* every slot, interleaved; TopicSpec and QuestionsSpec: the two           *)
(* validators on families of inputs; ExtractSpec: the extractor on a       *)
(* family of texts; Part000Spec: the single-model server of                *)
(* src/unnamed/part_000 on the same texts; TimerSpec: two requests         *)
(* interleaved, their attempts ending on every path.                       *)
(***************************************************************************)
EXTENDS Integers, Sequences, FiniteSets, TLC

VARIABLES
    apiKey,     \* OPENROUTER_API_KEY is set (read once at startup)
    body,       \* per request: the parsed request body, req.body
    pc,         \* per request: where the handler is suspended
    i,          \* per request: loop index of generateQuestionsWithFallback (0-based)
    lastError,  \* per request: lastError of generateQuestionsWithFallback
    timer,      \* per request: the attempts (1-based) whose abort timer is armed
    httpStatus, \* per request: status of the response whose body is being read
    calls,      \* per request: the models fetch was called with, in order
    failed,     \* per request: the statement that threw, for each failed attempt
    reply,      \* per request: the last parsed body response.json() resolved with
    sent        \* per request: the responses written to res, in order

vars == <<apiKey, body, pc, i, lastError, timer, httpStatus, calls, failed, reply, sent>>

--------------------------------------------------------------------------
(* Bounds of the model *)

\* number of request slots
NumReqs == 2

\* longest upstream error body, in tokens
MaxBodyToks == 2

Reqs == 1 .. NumReqs

--------------------------------------------------------------------------
(* Configuration: src/server.js lines 9-23 *)

MODEL_FALLBACK_LIST ==
    << "google/gemini-flash-1.5",
       "google/gemini-flash-1.5-8b",
       "meta-llama/llama-3.2-3b-instruct:free",
       "microsoft/phi-3-mini-128k-instruct:free",
       "google/gemma-2-9b-it:free" >>

REQUEST_TIMEOUT == 5000

--------------------------------------------------------------------------
(* JavaScript values *)

JV(t, s, h, a, o) == [t |-> t, s |-> s, h |-> h, a |-> a, o |-> o]

JUndef     == JV("undefined", "", 0, <<>>, <<>>)
JNull      == JV("null", "", 0, <<>>, <<>>)
JBool(b)   == JV("boolean", "", IF b THEN 2 ELSE 0, <<>>, <<>>)
JNum(h)    == JV("number", "", h, <<>>, <<>>)
JInt(n)    == JNum(2 * n)
JStr(s)    == JV("string", s, 0, <<>>, <<>>)
JArr(a)    == JV("array", "", 0, a, <<>>)
JObj(o)    == JV("object", "", 0, <<>>, o)
Member(k, v) == [k |-> k, v |-> v]

\* ToBoolean(v)
Truthy(v) ==
    CASE v.t = "undefined" -> FALSE
      [] v.t = "null"      -> FALSE
      [] v.t = "boolean"   -> v.h # 0
      [] v.t = "number"    -> v.h # 0
      [] v.t = "string"    -> v.s # ""
      [] OTHER             -> TRUE

\* typeof v
TypeOf(v) ==
    CASE v.t = "null"  -> "object"
      [] v.t = "array" -> "object"
      [] OTHER         -> v.t

\* Array.isArray(v)
IsArray(v) == v.t = "array"

\* v[k] for a value that is neither null nor undefined: the member of an
\* object written last under k, undefined when there is none
RECURSIVE Lookup(_, _, _)
Lookup(o, k, n) ==
    IF n = 0 THEN JUndef
    ELSE IF o[n].k = k THEN o[n].v
    ELSE Lookup(o, k, n - 1)

Prop(v, k) == IF v.t = "object" THEN Lookup(v.o, k, Len(v.o)) ELSE JUndef

\* v.length of an array
Length(v) == Len(v.a)

--------------------------------------------------------------------------
(* Errors and messages *)

\* an Error object: its name, its message, and the statement that threw it
Err(name, message, site) == [name |-> name, message |-> message, site |-> site]

NoError == Err("", <<>>, "")

\* String.prototype.includes, on tokens
Includes(message, sub) == \E n \in 1 .. Len(message) : message[n] = sub

--------------------------------------------------------------------------
(* Topic Validator: validateTopic, src/server.js lines 25-46 *)

\* a topic as it arrives in the request body
TStr(c)      == [t |-> "string", h |-> 0, c |-> c]
TOther(t, h) == [t |-> t, h |-> h, c |-> <<>>]
Run(ch, n)   == [ch |-> ch, n |-> n]

\* a test that also takes a string of nothing but whitespace for missing
TopicFalsyBlank(topic) ==
    CASE topic.t = "undefined" -> TRUE
      [] topic.t = "null"      -> TRUE
      [] topic.t = "number"    -> topic.h = 0
      [] topic.t = "string"    -> \A n \in 1 .. Len(topic.c) : topic.c[n].ch = "sp"
      [] OTHER                 -> FALSE

\* !topic
TopicFalsy(topic) ==
    CASE topic.t = "undefined" -> TRUE
      [] topic.t = "null"      -> TRUE
      [] topic.t = "number"    -> topic.h = 0
      [] topic.t = "string"    -> topic.c = <<>>
      [] OTHER                 -> FALSE

\* String.prototype.trim
RECURSIVE TrimStart(_)
TrimStart(c) ==
    IF c # <<>> /\ Head(c).ch = "sp" THEN TrimStart(Tail(c)) ELSE c

RECURSIVE TrimEnd(_)
TrimEnd(c) ==
    IF c # <<>> /\ c[Len(c)].ch = "sp" THEN TrimEnd(SubSeq(c, 1, Len(c) - 1)) ELSE c

Trim(c) == TrimEnd(TrimStart(c))

\* the length of a string
RECURSIVE StrLength(_)
StrLength(c) == IF c = <<>> THEN 0 ELSE Head(c).n + StrLength(Tail(c))

\* the pattern without its anchors: one allow-listed character is enough
validPatternUnanchored(c) == \E n \in 1 .. Len(c) : c[n].ch \in {"a", "sp"}

\* /^[a-zA-Z0-9\s\-,.'&()]+$/.test(c)
validPattern(c) ==
    /\ c # <<>>
    /\ \A n \in 1 .. Len(c) : c[n].ch \in {"a", "sp"}

TopicResult(valid, error, topic) == [valid |-> valid, error |-> error, topic |-> topic]

\* a validator that takes its own message, 'less than 100', at its word
validateTopicBelow100(topic) ==
    IF TopicFalsy(topic) \/ topic.t # "string"
    THEN TopicResult(FALSE, "Topic is required and must be a string", <<>>)
    ELSE LET trimmed == Trim(topic.c) IN
         IF StrLength(trimmed) < 3
         THEN TopicResult(FALSE, "Topic must be at least 3 characters long", <<>>)
         ELSE IF StrLength(trimmed) >= 100
         THEN TopicResult(FALSE, "Topic must be less than 100 characters", <<>>)
         ELSE IF ~validPattern(trimmed)
         THEN TopicResult(FALSE, "Topic contains invalid characters", <<>>)
         ELSE TopicResult(TRUE, "", trimmed)

validateTopic(topic) ==
    IF TopicFalsy(topic) \/ topic.t # "string"
    THEN TopicResult(FALSE, "Topic is required and must be a string", <<>>)
    ELSE LET trimmed == Trim(topic.c) IN
         IF StrLength(trimmed) < 3
         THEN TopicResult(FALSE, "Topic must be at least 3 characters long", <<>>)
         ELSE IF StrLength(trimmed) > 100
         THEN TopicResult(FALSE, "Topic must be less than 100 characters", <<>>)
         ELSE IF ~validPattern(trimmed)
         THEN TopicResult(FALSE, "Topic contains invalid characters", <<>>)
         ELSE TopicResult(TRUE, "", trimmed)

--------------------------------------------------------------------------
(* Texts: the content of a chat completion, as tokens *)

Tok(k, s, h) == [k |-> k, s |-> s, h |-> h]

LBRACK   == Tok("[", "", 0)
RBRACK   == Tok("]", "", 0)
LBRACE   == Tok("{", "", 0)
RBRACE   == Tok("}", "", 0)
COMMA    == Tok(",", "", 0)
COLON    == Tok(":", "", 0)
WS       == Tok("ws", "", 0)
FENCE    == Tok("fence", "", 0)
Word(s)  == Tok("word", s, 0)
Lit(s)   == Tok("lit", s, 0)
StrTok(s) == Tok("str", s, 0)
NumTok(h) == Tok("num", "", h)

\* the content field of the upstream reply: a string (its tokens) or not
CStr(toks)   == [t |-> "string", toks |-> toks, h |-> 0]
CNum(h)      == [t |-> "number", toks |-> <<>>, h |-> h]
CUndef       == [t |-> "undefined", toks |-> <<>>, h |-> 0]
CObject      == [t |-> "object", toks |-> <<>>, h |-> 0]

\* !content
ContentFalsy(content) ==
    CASE content.t = "undefined" -> TRUE
      [] content.t = "number"    -> content.h = 0
      [] content.t = "string"    -> content.toks = <<>>
      [] OTHER                   -> FALSE

\* String(content), the coercion JSON.parse applies to its argument
StringOf(content) ==
    CASE content.t = "string"    -> content.toks
      [] content.t = "number"    -> << NumTok(content.h) >>
      [] content.t = "undefined" -> << Word("undefined") >>
      [] OTHER                   -> << Word("[object Object]") >>

--------------------------------------------------------------------------
(* JSON.parse *)

Parsed(ok, v, p) == [ok |-> ok, v |-> v, p |-> p]
ParseFail == Parsed(FALSE, JUndef, 0)

RECURSIVE SkipWs(_, _)
SkipWs(t, p) == IF p <= Len(t) /\ t[p].k = "ws" THEN SkipWs(t, p + 1) ELSE p

LitValue(s) ==
    CASE s = "null"  -> JNull
      [] s = "true"  -> JBool(TRUE)
      [] OTHER       -> JBool(FALSE)

RECURSIVE ParseValue(_, _)
RECURSIVE ParseElems(_, _, _)
RECURSIVE ParseMembers(_, _, _)

\* a value starting at token p; p of the result is the token after it
ParseValue(t, p) ==
    IF p > Len(t) THEN ParseFail
    ELSE CASE t[p].k = "str" -> Parsed(TRUE, JStr(t[p].s), p + 1)
           [] t[p].k = "num" -> Parsed(TRUE, JNum(t[p].h), p + 1)
           [] t[p].k = "lit" -> Parsed(TRUE, LitValue(t[p].s), p + 1)
           [] t[p].k = "["   ->
                LET q == SkipWs(t, p + 1) IN
                IF q <= Len(t) /\ t[q].k = "]"
                THEN Parsed(TRUE, JArr(<<>>), q + 1)
                ELSE ParseElems(t, q, <<>>)
           [] t[p].k = "{"   ->
                LET q == SkipWs(t, p + 1) IN
                IF q <= Len(t) /\ t[q].k = "}"
                THEN Parsed(TRUE, JObj(<<>>), q + 1)
                ELSE ParseMembers(t, q, <<>>)
           [] OTHER          -> ParseFail

\* the elements of an array from token p on, acc the elements read so far
ParseElems(t, p, acc) ==
    LET r == ParseValue(t, p) IN
    IF ~r.ok THEN ParseFail
    ELSE LET q == SkipWs(t, r.p) IN
         IF q > Len(t) THEN ParseFail
         ELSE IF t[q].k = "]" THEN Parsed(TRUE, JArr(Append(acc, r.v)), q + 1)
         ELSE IF t[q].k = "," THEN ParseElems(t, SkipWs(t, q + 1), Append(acc, r.v))
         ELSE ParseFail

\* the members of an object from token p on, acc the members read so far
ParseMembers(t, p, acc) ==
    IF p > Len(t) \/ t[p].k # "str" THEN ParseFail
    ELSE LET c == SkipWs(t, p + 1) IN
         IF c > Len(t) \/ t[c].k # ":" THEN ParseFail
         ELSE LET r == ParseValue(t, SkipWs(t, c + 1)) IN
              IF ~r.ok THEN ParseFail
              ELSE LET q == SkipWs(t, r.p)
                       m == Append(acc, Member(t[p].s, r.v)) IN
                   IF q > Len(t) THEN ParseFail
                   ELSE IF t[q].k = "}" THEN Parsed(TRUE, JObj(m), q + 1)
                   ELSE IF t[q].k = "," THEN ParseMembers(t, SkipWs(t, q + 1), m)
                   ELSE ParseFail

\* JSON.parse(t): ok is FALSE where it throws a SyntaxError
JSONparse(t) ==
    LET r == ParseValue(t, SkipWs(t, 1)) IN
    IF r.ok /\ SkipWs(t, r.p) = Len(t) + 1 THEN r ELSE ParseFail

--------------------------------------------------------------------------
(* JSON Extractor: extractJSON, src/server.js lines 48-74 *)

Max(S) == CHOOSE x \in S : \A y \in S : y <= x
Min(S) == CHOOSE x \in S : \A y \in S : x <= y

Closer(k) == IF k = "{" THEN "}" ELSE "]"

\* a regular expression's match: found, and its first group
Match(found, group) == [found |-> found, group |-> group]
NoMatch == Match(FALSE, <<>>)

\* the ends e of  ```(?:json)?\s*(\{[\s\S]*\}|\[[\s\S]*\])\s*```  matched
\* from the fence at token p: the group runs from token b to token e
FenceOpen(t, p) ==
    LET j == IF p + 1 <= Len(t) /\ t[p + 1] = Word("json") THEN p + 2 ELSE p + 1
    IN  SkipWs(t, j)

FenceEnds(t, p) ==
    LET b == FenceOpen(t, p) IN
    IF t[p].k # "fence" \/ b > Len(t) \/ t[b].k \notin {"{", "["} THEN {}
    ELSE { e \in b + 1 .. Len(t) :
             /\ t[e].k = Closer(t[b].k)
             /\ LET f == SkipWs(t, e + 1) IN f <= Len(t) /\ t[f].k = "fence" }

\* text.match(/```(?:json)?\s*(\{[\s\S]*\}|\[[\s\S]*\])\s*```/): the leftmost
\* fence that matches, the group as long as it can be
codeBlockMatch(t) ==
    LET starts == { p \in 1 .. Len(t) : FenceEnds(t, p) # {} } IN
    IF starts = {} THEN NoMatch
    ELSE LET p == Min(starts) IN
         Match(TRUE, SubSeq(t, FenceOpen(t, p), Max(FenceEnds(t, p))))

\* the ends of  (\{[\s\S]*\}|\[[\s\S]*\])  matched from token p
BracketEnds(t, p) ==
    IF t[p].k \notin {"{", "["} THEN {}
    ELSE { e \in p + 1 .. Len(t) : t[e].k = Closer(t[p].k) }

\* text.match(/(\{[\s\S]*\}|\[[\s\S]*\])/)
jsonMatch(t) ==
    LET starts == { p \in 1 .. Len(t) : BracketEnds(t, p) # {} } IN
    IF starts = {} THEN NoMatch
    ELSE LET p == Min(starts) IN Match(TRUE, SubSeq(t, p, Max(BracketEnds(t, p))))

\* what a call returns (ok, value v) or throws (err); path is the step of
\* extractJSON that produced the value
Outcome(ok, v, err, path) == [ok |-> ok, v |-> v, err |-> err, path |-> path]

extractJSON(text) ==
    LET whole == JSONparse(StringOf(text)) IN
    IF whole.ok THEN Outcome(TRUE, whole.v, NoError, 1)
    ELSE IF text.t # "string"
    THEN Outcome(FALSE, JUndef,
                 Err("TypeError", << "text.match is not a function" >>, "match"), 0)
    ELSE LET cb     == codeBlockMatch(text.toks)
             fenced == IF cb.found THEN JSONparse(cb.group) ELSE ParseFail
         IN
         IF fenced.ok THEN Outcome(TRUE, fenced.v, NoError, 2)
         ELSE LET jm   == jsonMatch(text.toks)
                  bare == IF jm.found THEN JSONparse(jm.group) ELSE ParseFail
              IN
              IF bare.ok THEN Outcome(TRUE, bare.v, NoError, 3)
              ELSE Outcome(FALSE, JUndef,
                           Err("Error", << "No valid JSON found in response" >>,
                               "extractJSON"), 0)

--------------------------------------------------------------------------
(* Question-Set Validator: validateQuestions, src/server.js lines 76-105 *)

\* the callback of questions.forEach for element q at index: the error it
\* throws, NoError when it returns
CheckQuestion(q, index) ==
    IF q.t \in {"null", "undefined"}
    THEN Err("TypeError",
             << "Cannot read properties of", q.t, "(reading 'question')" >>,
             "validateQuestions")
    ELSE IF ~Truthy(Prop(q, "question")) \/ TypeOf(Prop(q, "question")) # "string"
    THEN Err("Error",
             << "Question", ToString(index + 1), ":",
                "Missing or invalid 'question' field" >>, "question")
    ELSE IF ~IsArray(Prop(q, "options")) \/ Length(Prop(q, "options")) # 4
    THEN Err("Error",
             << "Question", ToString(index + 1), ":",
                "Must have exactly 4 options" >>, "options")
    ELSE IF \/ TypeOf(Prop(q, "correct")) # "number"
            \/ Prop(q, "correct").h < 2 * 0
            \/ Prop(q, "correct").h > 2 * 3
    THEN Err("Error",
             << "Question", ToString(index + 1), ":",
                "'correct' must be 0, 1, 2, or 3" >>, "correct")
    ELSE IF ~Truthy(Prop(q, "explanation")) \/ TypeOf(Prop(q, "explanation")) # "string"
    THEN Err("Error",
             << "Question", ToString(index + 1), ":",
                "Missing or invalid 'explanation' field" >>, "explanation")
    ELSE NoError

\* questions.forEach(...) from index on: the first error thrown
RECURSIVE ForEachQuestion(_, _)
ForEachQuestion(a, index) ==
    IF index >= Len(a) THEN NoError
    ELSE LET e == CheckQuestion(a[index + 1], index) IN
         IF e # NoError THEN e ELSE ForEachQuestion(a, index + 1)

\* a validator that does not check the count
validateQuestionsAnyCount(questions) ==
    IF ~IsArray(questions)
    THEN Err("Error", << "Questions must be an array" >>, "notArray")
    ELSE ForEachQuestion(questions.a, 0)

\* the error validateQuestions throws, NoError when it returns true
validateQuestions(questions) ==
    IF ~IsArray(questions)
    THEN Err("Error", << "Questions must be an array" >>, "notArray")
    ELSE IF Length(questions) # 5
    THEN Err("Error",
             << "Expected 5 questions, got", ToString(Length(questions)) >>, "count")
    ELSE ForEachQuestion(questions.a, 0)

--------------------------------------------------------------------------
(* One call of the external API: callOpenRouterAPI, src/server.js 184-239 *)

\* response.ok
ResponseOk(status) == status >= 200 /\ status <= 299

\* the characters a token of an error body takes
TokWidth(tok) ==
    CASE tok = "PAD"        -> 100
      [] tok = "timeout"    -> 7
      [] tok = "rate limit" -> 10
      [] OTHER              -> 3

\* errorText.substring(0, 100): the tokens that lie within the first 100
\* characters, used being the characters taken so far
RECURSIVE SubstringFrom(_, _)
SubstringFrom(errorText, used) ==
    IF errorText = <<>> \/ used + TokWidth(Head(errorText)) > 100 THEN <<>>
    ELSE << Head(errorText) >>
           \o SubstringFrom(Tail(errorText), used + TokWidth(Head(errorText)))

Substring100(errorText) == SubstringFrom(errorText, 0)

\* line 214: the error thrown for a response that is not ok
ApiError(status, errorText) ==
    Err("Error", << "API Error", ToString(status), ":" >> \o Substring100(errorText),
        "http")

\* a catch block that rethrows whatever it caught
CallCatchRethrow(error) == error

\* lines 230-238: what the catch block of callOpenRouterAPI throws for error
CallCatch(error) ==
    IF error.name = "AbortError"
    THEN Err("Error", << "Request", "timeout", "- took longer than 5 seconds" >>,
             "timeout")
    ELSE error

\* data?.choices?.[0]?.message?.content
ContentOf(data) ==
    IF data.choices = <<>> THEN CUndef ELSE data.choices[1].message.content

\* lines 217-228: from the parsed body of an ok response to the questions
\* returned or the error thrown
CallResult(data) ==
    LET content == ContentOf(data) IN
    IF ContentFalsy(content)
    THEN Outcome(FALSE, JUndef,
                 CallCatch(Err("Error", << "Empty response from API" >>, "empty")), 0)
    ELSE LET questions == extractJSON(content) IN
         IF ~questions.ok
         THEN Outcome(FALSE, JUndef, CallCatch(questions.err), 0)
         ELSE LET thrown == validateQuestions(questions.v) IN
              IF thrown # NoError
              THEN Outcome(FALSE, JUndef, CallCatch(thrown), 0)
              ELSE Outcome(TRUE, questions.v, NoError, questions.path)

--------------------------------------------------------------------------
(* Model Fallback Engine: generateQuestionsWithFallback, src/server.js 130-181 *)

\* a configuration check that never fails
KeyMissingIgnored(key) == FALSE

\* line 131
KeyMissing(key) == ~key

ConfigurationError ==
    Err("Error", << "OPENROUTER_API_KEY not configured" >>, "config")

\* line 155
ErrorMsg(error) == IF error.message # <<>> THEN error.message ELSE << "Unknown error" >>

\* a retry decision that takes every error for retryable
shouldRetryAlways(errorMsg) == TRUE

\* a retry decision that leaves out the rate-limit test
shouldRetryNoRateLimit(errorMsg) ==
    \/ Includes(errorMsg, "404")
    \/ Includes(errorMsg, "400")
    \/ Includes(errorMsg, "timeout")
    \/ Includes(errorMsg, "503")
    \/ Includes(errorMsg, "502")

\* lines 160-166
shouldRetry(errorMsg) ==
    \/ Includes(errorMsg, "429")
    \/ Includes(errorMsg, "404")
    \/ Includes(errorMsg, "400")
    \/ Includes(errorMsg, "timeout")
    \/ Includes(errorMsg, "503")
    \/ Includes(errorMsg, "502")

\* line 143, for the 0-based loop index
isLastModel(index) == index = Len(MODEL_FALLBACK_LIST) - 1

\* line 168: the catch block rethrows
GivesUp(index, error) == ~shouldRetry(ErrorMsg(error)) \/ isLastModel(index)

\* a catch block that keeps the first error it saw
ThrownErrorStale(last, error) == IF last = NoError THEN error ELSE last

\* lines 154 and 171: the error the catch block throws, lastError being the
\* value before the catch
ThrownError(last, error) == error

--------------------------------------------------------------------------
(* Request Handler: POST /generate, src/server.js lines 258-315 *)

Response(status, success, error, topic, total, questions) ==
    [status |-> status, success |-> success, error |-> error, topic |-> topic,
     total |-> total, questions |-> questions]

\* lines 300-305
statusCode(message) ==
    IF Includes(message, "timeout") THEN 504
    ELSE IF Includes(message, "rate limit") \/ Includes(message, "429") THEN 429
    ELSE 500

\* a catch block that always answers 500
ErrorResponseAlways500(error) ==
    Response(500, FALSE,
             IF error.message # <<>> THEN error.message
             ELSE << "Failed to generate questions" >>,
             <<>>, 0, JUndef)

\* lines 295-314: the response of the catch block
ErrorResponse(error) ==
    Response(statusCode(error.message), FALSE,
             IF error.message # <<>> THEN error.message
             ELSE << "Failed to generate questions" >>,
             <<>>, 0, JUndef)

\* lines 269-272
ValidationResponse(validation) ==
    Response(400, FALSE, << validation.error >>, <<>>, 0, JUndef)

\* lines 284-293; res.json without res.status answers 200
SuccessResponse(validatedTopic, questions) ==
    Response(200, TRUE, <<>>, validatedTopic, Length(questions), questions)

\* req.body as express.json() leaves it: an "object" with its topic member,
\* "none" (undefined) when no body was parsed, "malformed" when the body
\* was not JSON and express.json() passed its error on
ReqBody(kind, topic) == [kind |-> kind, topic |-> topic]
NoBody == ReqBody("none", TOther("undefined", 0))

\* lines 326-332: the error handler's response
InternalErrorResponse ==
    Response(500, FALSE, << "Internal server error" >>, <<>>, 0, JUndef)

DestructureError ==
    Err("TypeError", << "Cannot destructure property 'topic' of 'req.body'" >>,
        "handler")

\* lines 262-279: what the handler does before its first await: "respond"
\* with resp, or "call" the first model for the validated topic
Entry(do, resp) == [do |-> do, resp |-> resp]
NoResponse == Response(0, FALSE, <<>>, <<>>, 0, JUndef)

\* a handler that does not look at the validator's verdict
HandlerEntryUnchecked(b, key) ==
    IF b.kind # "object" THEN Entry("respond", ErrorResponse(DestructureError))
    ELSE IF KeyMissing(key) THEN Entry("respond", ErrorResponse(ConfigurationError))
    ELSE Entry("call", NoResponse)

HandlerEntry(b, key) ==
    IF b.kind # "object" THEN Entry("respond", ErrorResponse(DestructureError))
    ELSE LET validation == validateTopic(b.topic) IN
         IF ~validation.valid THEN Entry("respond", ValidationResponse(validation))
         ELSE IF KeyMissing(key) THEN Entry("respond", ErrorResponse(ConfigurationError))
         ELSE Entry("call", NoResponse)

--------------------------------------------------------------------------
(* Inputs: request bodies *)

\* "Indian History" with whitespace around it
TopicPadded ==
    TStr(<< Run("sp", 1), Run("a", 6), Run("sp", 1), Run("a", 7), Run("sp", 2) >>)

SampleTopics ==
    { TOther("undefined", 0), TOther("null", 0), TOther("number", 0),
      TOther("number", 10), TOther("object", 0),
      TStr(<<>>), TStr(<< Run("sp", 4) >>), TStr(<< Run("a", 2) >>),
      TStr(<< Run("sp", 2), Run("a", 2), Run("sp", 2) >>),
      TStr(<< Run("a", 101) >>),
      TStr(<< Run("a", 1), Run("x", 2), Run("sp", 1), Run("a", 6), Run("x", 1) >>),
      TopicPadded }

SampleBodies ==
    { NoBody, ReqBody("malformed", TOther("undefined", 0)) }
        \cup { ReqBody("object", topic) : topic \in SampleTopics }

--------------------------------------------------------------------------
(* Inputs: what the external API answers *)

\* JSON.stringify, the way the upstream writes a value into its text
RECURSIVE Stringify(_)
RECURSIVE StringifyElems(_, _)
RECURSIVE StringifyMembers(_, _)

Stringify(v) ==
    CASE v.t = "string"  -> << StrTok(v.s) >>
      [] v.t = "number"  -> << NumTok(v.h) >>
      [] v.t = "boolean" -> << Lit(IF v.h # 0 THEN "true" ELSE "false") >>
      [] v.t = "array"   -> << LBRACK >> \o StringifyElems(v.a, 1) \o << RBRACK >>
      [] v.t = "object"  -> << LBRACE >> \o StringifyMembers(v.o, 1) \o << RBRACE >>
      [] OTHER           -> << Lit("null") >>

StringifyElems(a, n) ==
    IF n > Len(a) THEN <<>>
    ELSE (IF n > 1 THEN << COMMA >> ELSE <<>>)
           \o Stringify(a[n]) \o StringifyElems(a, n + 1)

StringifyMembers(o, n) ==
    IF n > Len(o) THEN <<>>
    ELSE (IF n > 1 THEN << COMMA >> ELSE <<>>)
           \o << StrTok(o[n].k), COLON >> \o Stringify(o[n].v)
           \o StringifyMembers(o, n + 1)

\* a question record as the prompt asks for it
Question(question, options, correct, explanation) ==
    JObj(<< Member("question", question), Member("options", options),
            Member("correct", correct), Member("explanation", explanation) >>)

FourOptions == JArr(<< JStr("A"), JStr("B"), JStr("C"), JStr("D") >>)
GoodQuestion(text) == Question(JStr(text), FourOptions, JInt(0), JStr("E"))

\* n copies of q
Copies(q, n) == [k \in 1 .. n |-> q]

SetA == JArr(Copies(GoodQuestion("QA"), 5))
SetB == JArr(Copies(GoodQuestion("QB"), 5))
SetHalf ==
    JArr(Copies(GoodQuestion("QA"), 4)
            \o << Question(JStr("QA"), FourOptions, JNum(3), JStr("E")) >>)
SetFour == JArr(Copies(GoodQuestion("QA"), 4))
SetSix == JArr(Copies(GoodQuestion("QA"), 6))
SetBadCorrect ==
    JArr(Copies(GoodQuestion("QA"), 2)
            \o << Question(JStr("QA"), FourOptions, JInt(4), JStr("E")) >>
            \o Copies(GoodQuestion("QA"), 2))
SetNullRecord == JArr(Copies(GoodQuestion("QA"), 4) \o << JNull >>)

\* the parsed body of an ok response; carries is the value the upstream
\* wrote into the text of its first choice
Reply(choices, carries) == [choices |-> choices, carries |-> carries]
Choice(content) == [message |-> [content |-> content]]
Says(toks, carries) == Reply(<< Choice(CStr(toks)) >>, carries)

SampleReplies ==
    { Says(Stringify(SetA), SetA),
      Says(<< Word("Here"), WS, FENCE, Word("json"), WS >> \o Stringify(SetB)
              \o << WS, FENCE >>, SetB),
      Says(<< Word("Sure"), WS >> \o Stringify(SetA) \o << WS, Word("Enjoy") >>, SetA),
      Says(Stringify(SetHalf), SetHalf),
      Says(<< Word("Sorry"), WS, Word("no") >>, JUndef),
      Says(<< LBRACK >> \o Stringify(GoodQuestion("QA")) \o << COMMA, RBRACK >>, JUndef),
      Says(Stringify(SetFour), SetFour),
      Says(Stringify(SetSix), SetSix),
      Says(Stringify(GoodQuestion("QA")), GoodQuestion("QA")),
      Says(Stringify(SetBadCorrect), SetBadCorrect),
      Says(Stringify(SetNullRecord), SetNullRecord),
      Says(<<>>, JUndef),
      Reply(<< Choice(CObject) >>, JUndef),
      Reply(<<>>, JUndef) }

\* status codes of the upstream's responses
SampleStatuses == { 200, 429, 500 }

\* error bodies: PAD stands for 100 characters of other text
BodyAlphabet == { "PAD", "timeout", "429", "rate limit" }
SampleErrorTexts ==
    UNION { [1 .. n -> BodyAlphabet] : n \in 0 .. MaxBodyToks }

\* errors fetch, response.text and response.json reject with
AbortError == Err("AbortError", << "This operation was aborted" >>, "abort")
NetworkError == Err("TypeError", << "fetch failed" >>, "network")
BodyErrors ==
    { Err("TypeError", << "terminated" >>, "network"),
      Err("SyntaxError", << "Unexpected token in JSON" >>, "json") }

--------------------------------------------------------------------------
(* The state machine.  A request is suspended only at an await: of fetch   *)
(* ("fetch"), of response.text ("text") or of response.json ("json").      *)
(* Every action runs the handler from one await to the next.               *)

\* setTimeout, line 186, arms the timer of attempt id; clearTimeout, lines
\* 209 and 231, disarms it.  armed is the set of armed timers of a request
setTimeout(armed, id) == armed \cup {id}

\* a clearTimeout that is handed an identifier that is not the timer's
clearTimeoutStale(armed, id) == armed

clearTimeout(armed, id) == armed \ {id}

\* a loop that calls the model and, without awaiting it, the next one too
IssueCallHedged(r, index, armed) ==
    /\ pc' = [pc EXCEPT ![r] = "fetch"]
    /\ i' = [i EXCEPT ![r] = index]
    /\ timer' = [timer EXCEPT ![r] = setTimeout(armed, index + 1)]
    /\ calls' = [calls EXCEPT ![r] =
                    IF index + 2 <= Len(MODEL_FALLBACK_LIST)
                    THEN @ \o << MODEL_FALLBACK_LIST[index + 1],
                                 MODEL_FALLBACK_LIST[index + 2] >>
                    ELSE Append(@, MODEL_FALLBACK_LIST[index + 1])]
    /\ httpStatus' = [httpStatus EXCEPT ![r] = 0]

\* a loop whose index is one variable of the module, shared by all requests
IssueCallSharedIndex(r, index, armed) ==
    /\ pc' = [pc EXCEPT ![r] = "fetch"]
    /\ i' = [q \in Reqs |-> index]
    /\ timer' = [timer EXCEPT ![r] = setTimeout(armed, index + 1)]
    /\ calls' = [calls EXCEPT ![r] = Append(@, MODEL_FALLBACK_LIST[index + 1])]
    /\ httpStatus' = [httpStatus EXCEPT ![r] = 0]

\* callOpenRouterAPI is entered for loop index index while the timers in
\* armed are armed: lines 185-207 arm the abort timer and call fetch
IssueCall(r, index, armed) ==
    /\ pc' = [pc EXCEPT ![r] = "fetch"]
    /\ i' = [i EXCEPT ![r] = index]
    /\ timer' = [timer EXCEPT ![r] = setTimeout(armed, index + 1)]
    /\ calls' = [calls EXCEPT ![r] = Append(@, MODEL_FALLBACK_LIST[index + 1])]
    /\ httpStatus' = [httpStatus EXCEPT ![r] = 0]

\* the handler writes resp and returns, the timers in armed still armed
Respond(r, resp, armed) ==
    /\ pc' = [pc EXCEPT ![r] = "done"]
    /\ sent' = [sent EXCEPT ![r] = Append(@, resp)]
    /\ timer' = [timer EXCEPT ![r] = armed]
    /\ httpStatus' = [httpStatus EXCEPT ![r] = 0]

\* a handler without a catch block: the error the loop rethrows escapes
\* and nothing is written to res
AttemptFailedUncaught(r, error) ==
    /\ failed' = [failed EXCEPT ![r] = Append(@, error.site)]
    /\ lastError' = [lastError EXCEPT ![r] = error]
    /\ IF GivesUp(i[r], error)
       THEN /\ pc' = [pc EXCEPT ![r] = "done"]
            /\ timer' = [timer EXCEPT ![r] = clearTimeout(@, i[r] + 1)]
            /\ httpStatus' = [httpStatus EXCEPT ![r] = 0]
            /\ UNCHANGED <<i, calls, sent>>
       ELSE /\ IssueCall(r, i[r] + 1, clearTimeout(timer[r], i[r] + 1))
            /\ UNCHANGED sent

\* a loop that tries the model that failed once more instead of the next
AttemptFailedRetrySame(r, error) ==
    /\ failed' = [failed EXCEPT ![r] = Append(@, error.site)]
    /\ lastError' = [lastError EXCEPT ![r] = error]
    /\ IF GivesUp(i[r], error)
       THEN /\ Respond(r, ErrorResponse(ThrownError(lastError[r], error)),
                       clearTimeout(timer[r], i[r] + 1))
            /\ UNCHANGED <<i, calls>>
       ELSE /\ IssueCall(r, i[r], clearTimeout(timer[r], i[r] + 1))
            /\ UNCHANGED sent

\* callOpenRouterAPI throws error, its catch block clearing the timer of
\* the attempt at line 231: the catch block of the loop, lines 153-176,
\* and, when it rethrows, the catch block of the handler
AttemptFailed(r, error) ==
    /\ failed' = [failed EXCEPT ![r] = Append(@, error.site)]
    /\ lastError' = [lastError EXCEPT ![r] = error]
    /\ IF GivesUp(i[r], error)
       THEN /\ Respond(r, ErrorResponse(ThrownError(lastError[r], error)),
                       clearTimeout(timer[r], i[r] + 1))
            /\ UNCHANGED <<i, calls>>
       ELSE /\ IssueCall(r, i[r] + 1, clearTimeout(timer[r], i[r] + 1))
            /\ UNCHANGED sent

\* a loop that does not return on success
AttemptSucceededNoReturn(r, questions) ==
    /\ IF isLastModel(i[r])
       THEN /\ Respond(r, SuccessResponse(validateTopic(body[r].topic).topic, questions),
                       timer[r])
            /\ UNCHANGED <<i, calls>>
       ELSE /\ IssueCall(r, i[r] + 1, timer[r])
            /\ UNCHANGED sent
    /\ UNCHANGED <<failed, lastError>>

\* callOpenRouterAPI has returned questions: lines 150-151 and 281-293
AttemptSucceeded(r, questions) ==
    /\ Respond(r, SuccessResponse(validateTopic(body[r].topic).topic, questions),
               timer[r])
    /\ UNCHANGED <<i, calls, failed, lastError>>

\* a request whose body express.json() could not parse goes to the error
\* handler, lines 326-332, and never to the route
RejectBody(r) ==
    /\ pc[r] = "new"
    /\ body[r].kind = "malformed"
    /\ Respond(r, InternalErrorResponse, timer[r])
    /\ UNCHANGED <<apiKey, body, i, lastError, calls, failed, reply>>

\* POST /generate arrives: lines 258-279, up to the first await
Start(r) ==
    /\ pc[r] = "new"
    /\ body[r].kind # "malformed"
    /\ LET entry == HandlerEntry(body[r], apiKey) IN
       IF entry.do = "respond"
       THEN Respond(r, entry.resp, timer[r]) /\ UNCHANGED <<i, calls>>
       ELSE IssueCall(r, 0, timer[r]) /\ UNCHANGED sent
    /\ UNCHANGED <<apiKey, body, lastError, failed, reply>>

\* the timer of the attempt fires before fetch settles: the callback of
\* line 186 aborts the controller of its own invocation, which rejects the
\* fetch that was given its signal at line 206
FetchAbort(r) ==
    /\ pc[r] = "fetch"
    /\ (i[r] + 1) \in timer[r]
    /\ AttemptFailed(r, CallCatch(AbortError))
    /\ UNCHANGED <<apiKey, body, reply>>

\* fetch rejects: no response
FetchReject(r) ==
    /\ pc[r] = "fetch"
    /\ AttemptFailed(r, CallCatch(NetworkError))
    /\ UNCHANGED <<apiKey, body, reply>>

\* fetch resolves with a response of some status: line 209 clears the timer,
\* lines 212-217 start reading the body
FetchResolve(r, statuses) ==
    /\ pc[r] = "fetch"
    /\ \E status \in statuses :
          /\ httpStatus' = [httpStatus EXCEPT ![r] = status]
          /\ pc' = [pc EXCEPT ![r] = IF ResponseOk(status) THEN "json" ELSE "text"]
    /\ timer' = [timer EXCEPT ![r] = clearTimeout(@, i[r] + 1)]
    /\ UNCHANGED <<apiKey, body, i, lastError, calls, failed, sent, reply>>

\* response.text() resolves: line 214 throws
TextResolve(r, texts) ==
    /\ pc[r] = "text"
    /\ \E errorText \in texts :
          AttemptFailed(r, CallCatch(ApiError(httpStatus[r], errorText)))
    /\ UNCHANGED <<apiKey, body, reply>>

\* response.text() or response.json() rejects
BodyReject(r) ==
    /\ pc[r] \in {"text", "json"}
    /\ \E error \in BodyErrors :
          /\ (error.name = "SyntaxError" => pc[r] = "json")
          /\ AttemptFailed(r, CallCatch(error))
    /\ UNCHANGED <<apiKey, body, reply>>

\* response.json() resolves: lines 217-228
JsonResolve(r, replies) ==
    /\ pc[r] = "json"
    /\ \E data \in replies :
          /\ reply' = [reply EXCEPT ![r] = data]
          /\ LET result == CallResult(data) IN
             IF result.ok
             THEN AttemptSucceeded(r, result.v)
             ELSE AttemptFailed(r, result.err)
    /\ UNCHANGED <<apiKey, body>>

\* the steps of request r, the upstream answering from the sample sets
Step(r) ==
    \/ RejectBody(r)
    \/ Start(r)
    \/ FetchAbort(r)
    \/ FetchReject(r)
    \/ FetchResolve(r, SampleStatuses)
    \/ TextResolve(r, SampleErrorTexts)
    \/ BodyReject(r)
    \/ JsonResolve(r, SampleReplies)

\* the requests in active have arrived, with any body; the others never do
InitWith(active) ==
    /\ apiKey \in BOOLEAN
    /\ body \in [Reqs -> SampleBodies]
    /\ \A r \in Reqs \ active : body[r] = NoBody
    /\ pc = [r \in Reqs |-> IF r \in active THEN "new" ELSE "off"]
    /\ i = [r \in Reqs |-> 0]
    /\ lastError = [r \in Reqs |-> NoError]
    /\ timer = [r \in Reqs |-> {}]
    /\ httpStatus = [r \in Reqs |-> 0]
    /\ calls = [r \in Reqs |-> <<>>]
    /\ failed = [r \in Reqs |-> <<>>]
    /\ sent = [r \in Reqs |-> <<>>]
    /\ reply = [r \in Reqs |-> Reply(<<>>, JUndef)]

\* one request
Init == InitWith({1})

Next == Step(1)

Spec == Init /\ [][Next]_vars

\* every await of the request settles
FairSpec == Spec /\ WF_vars(Next)

--------------------------------------------------------------------------
(* Vocabulary of the properties *)

K == Len(MODEL_FALLBACK_LIST)

Last(q) == q[Len(q)]

\* the substrings the retry decision looks for
RetryWords == { "429", "404", "400", "timeout", "503", "502" }
HasWord(message, w) == w \in { message[n] : n \in 1 .. Len(message) }
Retryable(message) == \E w \in RetryWords : HasWord(message, w)

\* where the failures of the JSON Extractor and of the Question-Set
\* Validator are thrown, and those of the transport
ParseSites ==
    { "extractJSON", "notArray", "count", "question", "options", "correct",
      "explanation" }
TransportSites == { "http", "empty" }

\* the step appends a failure thrown at one of sites to the log of r
FailsAt(r, sites) ==
    /\ Len(failed'[r]) = Len(failed[r]) + 1
    /\ Last(failed'[r]) \in sites

\* the step goes on to the next model of the list
Advances(r) ==
    /\ pc'[r] = "fetch"
    /\ i'[r] = i[r] + 1
    /\ calls'[r] = Append(calls[r], MODEL_FALLBACK_LIST[i[r] + 2])
    /\ sent'[r] = sent[r]

\* the step ends the run with the error of the attempt that just failed
EndsWithItsError(r) ==
    /\ pc'[r] = "done"
    /\ calls'[r] = calls[r]
    /\ Len(sent'[r]) = Len(sent[r]) + 1
    /\ ~Last(sent'[r]).success
    /\ Last(sent'[r]).error = lastError'[r].message

\* the run of the engine for r is over and its last attempt failed
Exhausted(r) ==
    /\ pc[r] = "done"
    /\ calls[r] # <<>>
    /\ Len(failed[r]) = Len(calls[r])

\* the run of the engine for r is over and its last attempt succeeded
Succeeded(r) ==
    /\ pc[r] = "done"
    /\ Len(calls[r]) = Len(failed[r]) + 1

--------------------------------------------------------------------------
(* C1 *)

\* C1 as stated: a failure of the JSON Extractor or of the Question-Set
\* Validator on a model that is not the last is followed by the attempt on
\* the next model, so a run whose last failure is one of these has called
\* every model.
C1_ParseFailureAdvances ==
    \A r \in Reqs :
        (pc[r] = "done" /\ failed[r] # <<>> /\ Last(failed[r]) \in ParseSites)
            => Len(calls[r]) = K

\* C1 amended: a failure of the JSON Extractor or of the Question-Set
\* Validator is followed by the attempt on the next model only if its
\* message holds one of the retry substrings and the model is not the last;
\* otherwise the run ends at that model with that error.
C1_ParseFailureEndsRun ==
    [][ \A r \in Reqs :
            FailsAt(r, ParseSites) =>
                IF Retryable(lastError'[r].message) /\ i[r] < K - 1
                THEN Advances(r)
                ELSE EndsWithItsError(r) ]_vars

\* the first model answered prose without JSON and the run is over
C1_Witness ==
    /\ pc[1] = "done"
    /\ failed[1] = << "extractJSON" >>
    /\ calls[1] = << MODEL_FALLBACK_LIST[1] >>
    /\ sent[1][1].error = << "No valid JSON found in response" >>

--------------------------------------------------------------------------
(* C2 *)

\* C2 as stated: a response that is not ok, or one without content, on a
\* model that is not the last is followed by the attempt on the next model,
\* so a run whose last failure is one of these has called every model.
C2_TransportFailureAdvances ==
    \A r \in Reqs :
        (pc[r] = "done" /\ failed[r] # <<>> /\ Last(failed[r]) \in TransportSites)
            => Len(calls[r]) = K

\* C2 amended: a response that is not ok is followed by the attempt on the
\* next model exactly when the model is not the last and the message
\* "API Error <status>: <first 100 characters of the body>" holds one of
\* the retry substrings; a response without content ends the run.
C2_TransportFailureRetriedByMessage ==
    [][ \A r \in Reqs :
            FailsAt(r, TransportSites) =>
                /\ IF Retryable(lastError'[r].message) /\ i[r] < K - 1
                   THEN Advances(r)
                   ELSE EndsWithItsError(r)
                /\ Last(failed'[r]) = "empty" => pc'[r] = "done"
                /\ (Last(failed'[r]) = "http" /\ httpStatus[r] = 429 /\ i[r] < K - 1)
                       => Advances(r) ]_vars

\* a 429 on the first model was retried, and a 500 whose body names no
\* retry substring within 100 characters ended the run at the second
C2_Witness ==
    /\ pc[1] = "done"
    /\ failed[1] = << "http", "http" >>
    /\ Len(calls[1]) = 2
    /\ sent[1][1].error = << "API Error", "500", ":", "PAD" >>

--------------------------------------------------------------------------
(* C3 *)

\* C3 as stated: when a run of the engine, the API key configured, ends in
\* failure, every model of the list has been attempted and the error
\* reported is that of the attempt on the last model of the list.
C3_ExhaustedAfterAllModels ==
    \A r \in Reqs :
        (apiKey /\ Exhausted(r)) =>
            /\ Len(calls[r]) = K
            /\ Last(sent[r]).error = lastError[r].message

\* C3 amended: when a run of the engine ends in failure, the models
\* attempted are a prefix of the list, each of them failed, the error
\* reported is that of the last attempt made, and that attempt was on the
\* last model of the list or its message holds no retry substring.
C3_ExhaustedWithLastAttemptsError ==
    \A r \in Reqs :
        (apiKey /\ Exhausted(r)) =>
            /\ calls[r] = SubSeq(MODEL_FALLBACK_LIST, 1, Len(calls[r]))
            /\ i[r] = Len(calls[r]) - 1
            /\ Len(sent[r]) = 1
            /\ ~sent[r][1].success
            /\ sent[r][1].error = lastError[r].message
            /\ (Len(calls[r]) = K \/ ~Retryable(lastError[r].message))

\* the first model timed out, the second answered a 500 that is not
\* retried, and the run ended there with the second error
C3_Witness ==
    /\ apiKey
    /\ Exhausted(1)
    /\ failed[1] = << "timeout", "http" >>
    /\ sent[1][1].error = << "API Error", "500", ":", "rate limit" >>

\* all five models were attempted and the last one's error is reported
C3_WitnessAllModels ==
    /\ apiKey
    /\ Exhausted(1)
    /\ Len(calls[1]) = K
    /\ Last(failed[1]) = "extractJSON"

--------------------------------------------------------------------------
(* C4 *)

\* C4: when the abort timer fires during the call of a model that is not
\* the last, the next model is called; and a run in which a model timed
\* out and a later model returned a valid question set answers 200 with
\* that model's questions and no error.
C4_TimeoutAdvances ==
    /\ [][ \A r \in Reqs :
              (FailsAt(r, {"timeout", "abort"}) /\ i[r] < K - 1)
                  => (Advances(r) /\ timer'[r] = {i[r] + 2}) ]_vars
    /\ [](\A r \in Reqs :
              (Succeeded(r) /\ \E n \in 1 .. Len(failed[r]) : failed[r][n] = "timeout")
                  => /\ Len(sent[r]) = 1
                     /\ sent[r][1].status = 200
                     /\ sent[r][1].success
                     /\ sent[r][1].error = <<>>
                     /\ sent[r][1].questions = reply[r].carries)

\* the first model timed out and the second model's fenced answer was
\* returned
C4_Witness ==
    /\ Succeeded(1)
    /\ failed[1] = << "timeout" >>
    /\ calls[1] = SubSeq(MODEL_FALLBACK_LIST, 1, 2)
    /\ sent[1][1].questions = SetB

--------------------------------------------------------------------------
(* C5 *)

\* C5: the step in which a model's reply passes the JSON Extractor and the
\* Question-Set Validator ends the run with a success response carrying
\* the questions of that reply; every model called before it failed; a
\* reply that carries a well-formed set of five passes; and once the run
\* is over no model is called.
C5_FirstSuccessEndsRun ==
    /\ [][ \A r \in Reqs :
              (pc[r] = "json" /\ pc'[r] # "json" /\ failed'[r] = failed[r])
                  => /\ pc'[r] = "done"
                     /\ calls'[r] = calls[r]
                     /\ Len(sent'[r]) = 1
                     /\ sent'[r][1].success
                     /\ sent'[r][1].questions = reply'[r].carries ]_vars
    /\ [][ \A r \in Reqs :
              (pc[r] = "json" /\ pc'[r] # "json" /\ reply'[r].carries \in {SetA, SetB})
                  => failed'[r] = failed[r] ]_vars
    /\ [][ \A r \in Reqs :
              pc[r] = "done" => (pc'[r] = "done" /\ calls'[r] = calls[r]) ]_vars
    /\ [](\A r \in Reqs :
              (pc[r] = "done" /\ sent[r] # <<>> /\ sent[r][1].success)
                  => Succeeded(r))

\* the third model was the first to succeed, and the last two were never
\* called
C5_Witness ==
    /\ Succeeded(1)
    /\ Len(calls[1]) = 3
    /\ Len(failed[1]) = 2
    /\ sent[1][1].questions = SetA

--------------------------------------------------------------------------
(* C6 *)

\* C6: without an API key no model is ever called, and the request of a
\* valid topic is answered with the error 'OPENROUTER_API_KEY not
\* configured'.
C6_NoKeyNoCall ==
    \A r \in Reqs :
        ~apiKey =>
            /\ calls[r] = <<>>
            /\ pc[r] \in {"off", "new", "done"}
            /\ (pc[r] = "done" /\ body[r].topic = TopicPadded)
                   => /\ Len(sent[r]) = 1
                      /\ ~sent[r][1].success
                      /\ sent[r][1].error = << "OPENROUTER_API_KEY not configured" >>

\* a valid topic was answered with the configuration error
C6_Witness ==
    /\ ~apiKey
    /\ pc[1] = "done"
    /\ body[1].topic = TopicPadded
    /\ calls[1] = <<>>
    /\ sent[1][1].error = << "OPENROUTER_API_KEY not configured" >>

--------------------------------------------------------------------------
(* C7 *)

\* C7: a request whose topic the Topic Validator rejects is answered 400
\* with success false and the validator's reason, and no model is called
\* for it, with or without an API key.
C7_InvalidTopicIs400 ==
    \A r \in Reqs :
        (body[r].kind = "object" /\ ~validateTopic(body[r].topic).valid) =>
            /\ calls[r] = <<>>
            /\ pc[r] \in {"new", "done"}
            /\ pc[r] = "done" =>
                  sent[r] = << Response(400, FALSE,
                                        << validateTopic(body[r].topic).error >>,
                                        <<>>, 0, JUndef) >>

\* a topic of two characters was answered 400 although the key is missing
C7_Witness ==
    /\ ~apiKey
    /\ pc[1] = "done"
    /\ body[1].topic = TStr(<< Run("a", 2) >>)
    /\ sent[1][1].status = 400
    /\ sent[1][1].error = << "Topic must be at least 3 characters long" >>

--------------------------------------------------------------------------
(* C8 *)

\* what the Question-Set Validator is to let through: five records, each
\* with a non-empty question, four options, a number correct from 0 to 3
\* and a non-empty explanation
AcceptableRecord(q) ==
    /\ q.t = "object"
    /\ \E m \in 1 .. Len(q.o) : q.o[m].k = "question" /\ q.o[m].v.t = "string"
                                  /\ q.o[m].v.s # ""
    /\ \E m \in 1 .. Len(q.o) : q.o[m].k = "options" /\ q.o[m].v.t = "array"
                                  /\ Len(q.o[m].v.a) = 4
    /\ \E m \in 1 .. Len(q.o) : q.o[m].k = "correct" /\ q.o[m].v.t = "number"
                                  /\ q.o[m].v.h \in 0 .. 6
    /\ \E m \in 1 .. Len(q.o) : q.o[m].k = "explanation" /\ q.o[m].v.t = "string"
                                  /\ q.o[m].v.s # ""

\* C8: a success response echoes the trimmed topic, carries an array of
\* exactly five acceptable records, and has total 5.
C8_SuccessShape ==
    \A r \in Reqs :
        \A n \in 1 .. Len(sent[r]) :
            (sent[r][n].success \/ sent[r][n].status = 200) =>
                /\ sent[r][n].success
                /\ sent[r][n].status = 200
                /\ body[r].topic.t = "string"
                /\ sent[r][n].topic = Trim(body[r].topic.c)
                /\ sent[r][n].topic = << Run("a", 6), Run("sp", 1), Run("a", 7) >>
                /\ sent[r][n].questions.t = "array"
                /\ sent[r][n].total = Len(sent[r][n].questions.a)
                /\ sent[r][n].total = 5
                /\ \A m \in 1 .. 5 : AcceptableRecord(sent[r][n].questions.a[m])

\* the padded topic came back trimmed with the five questions of the reply
C8_Witness ==
    /\ pc[1] = "done"
    /\ body[1].topic = TopicPadded
    /\ sent[1][1].success
    /\ sent[1][1].topic = << Run("a", 6), Run("sp", 1), Run("a", 7) >>
    /\ sent[1][1].total = 5
    /\ sent[1][1].questions = SetA

--------------------------------------------------------------------------
(* C9 *)

\* the status the handler gives an error message
Classified(message) ==
    IF HasWord(message, "timeout") THEN 504
    ELSE IF HasWord(message, "rate limit") \/ HasWord(message, "429") THEN 429
    ELSE 500

\* C9: when the run of the engine ends in failure the response has success
\* false, the message of the error that ended the run, and the status its
\* message is classified to: 504 for 'timeout', else 429 for 'rate limit'
\* or '429', else 500, whatever the earlier attempts failed with.
C9_FailureStatus ==
    \A r \in Reqs :
        (Exhausted(r) \/ (pc[r] = "done" /\ ~apiKey /\ body[r].topic = TopicPadded)) =>
            /\ Len(sent[r]) = 1
            /\ ~sent[r][1].success
            /\ Exhausted(r) =>
                  /\ sent[r][1].error = lastError[r].message
                  /\ sent[r][1].status = Classified(lastError[r].message)
                  /\ Last(failed[r]) = "timeout" => sent[r][1].status = 504
                  /\ Last(failed[r]) \in ParseSites \cup {"empty"}
                        => sent[r][1].status = 500
            /\ ~Exhausted(r) => sent[r][1].status = 500

\* the first model timed out, the second answered without content, and the
\* response is 500, not 504
C9_Witness ==
    /\ Exhausted(1)
    /\ failed[1] = << "timeout", "empty" >>
    /\ sent[1][1].status = 500
    /\ sent[1][1].error = << "Empty response from API" >>

\* a 429 was retried and the timeout of the second model gave 504
C9_WitnessTimeout ==
    /\ Exhausted(1)
    /\ Len(failed[1]) = K
    /\ failed[1][1] = "http"
    /\ Last(failed[1]) = "timeout"
    /\ sent[1][1].status = 504

--------------------------------------------------------------------------
(* C10 *)

\* C10: every request is answered exactly once, with one of the statuses
\* 200, 400, 429, 500 and 504, provided every await of it settles; no
\* second response is ever written.
C10_ExactlyOneResponse ==
    /\ [](\A r \in Reqs : Len(sent[r]) <= 1)
    /\ [](\A r \in Reqs :
              pc[r] = "done" =>
                  /\ Len(sent[r]) = 1
                  /\ sent[r][1].status \in {200, 400, 429, 500, 504})
    /\ <>(pc[1] = "done")

\* a reply whose array holds null made the validator throw a TypeError,
\* and the request was answered 500
C10_Witness ==
    /\ pc[1] = "done"
    /\ failed[1] # <<>>
    /\ Last(failed[1]) = "validateQuestions"
    /\ lastError[1].name = "TypeError"
    /\ Len(sent[1]) = 1
    /\ sent[1][1].status = 500

--------------------------------------------------------------------------
(* The Topic Validator on a family of topics: every string of at most      *)
(* MaxRuns runs, each of 1, 2 or 100 characters of one class, besides the  *)
(* sample topics.  The handler applies validateTopic to the topic of the   *)
(* request body in Start.                                                  *)

\* longest topic of the family, in runs
MaxRuns == 3

RunLengths == { 1, 2, 100 }
RunClasses == { "a", "sp", "x" }
Runs == { Run(ch, n) : ch \in RunClasses, n \in RunLengths }

TopicFamily ==
    { TStr(c) : c \in UNION { [1 .. n -> Runs] : n \in 0 .. MaxRuns } }

TopicBodies == { ReqBody("object", topic) : topic \in TopicFamily \cup SampleTopics }

TopicInit ==
    /\ apiKey \in BOOLEAN
    /\ \E b \in TopicBodies : body = [r \in Reqs |-> IF r = 1 THEN b ELSE NoBody]
    /\ pc = [r \in Reqs |-> IF r = 1 THEN "new" ELSE "off"]
    /\ i = [r \in Reqs |-> 0]
    /\ lastError = [r \in Reqs |-> NoError]
    /\ timer = [r \in Reqs |-> {}]
    /\ httpStatus = [r \in Reqs |-> 0]
    /\ calls = [r \in Reqs |-> <<>>]
    /\ failed = [r \in Reqs |-> <<>>]
    /\ sent = [r \in Reqs |-> <<>>]
    /\ reply = [r \in Reqs |-> Reply(<<>>, JUndef)]

TopicNext == Start(1)

TopicSpec == TopicInit /\ [][TopicNext]_vars

\* the characters of s are all allow-listed
AllowListed(s) == \A n \in 1 .. Len(s) : s[n].ch \in {"a", "sp"}

\* s holds a character that is not allow-listed
HasInvalidChar(s) == \E n \in 1 .. Len(s) : s[n].ch = "x"

\* c is s without the whitespace at its two ends
IsTrimOf(c, s) ==
    \E a \in 1 .. Len(s) + 1, b \in 0 .. Len(s) :
        /\ c = SubSeq(s, a, b)
        /\ \A n \in 1 .. a - 1 : s[n].ch = "sp"
        /\ \A n \in b + 1 .. Len(s) : s[n].ch = "sp"
        /\ a <= b => (s[a].ch # "sp" /\ s[b].ch # "sp")

\* the number of characters of s between the whitespace at its two ends
TrimmedLength(s) ==
    LET inner == { n \in 1 .. Len(s) :
                     /\ \E m \in 1 .. n : s[m].ch # "sp"
                     /\ \E m \in n .. Len(s) : s[m].ch # "sp" }
        Sum[n \in 0 .. Len(s)] ==
            IF n = 0 THEN 0 ELSE Sum[n - 1] + (IF n \in inner THEN s[n].n ELSE 0)
    IN  Sum[Len(s)]

\* the request bodies that carry a string topic
StringTopic(r) == body[r].kind = "object" /\ body[r].topic.t = "string"

\* the handler has answered r with 400 and the reason error
Answered400(r, error) ==
    /\ calls[r] = <<>>
    /\ sent[r] = << Response(400, FALSE, << error >>, <<>>, 0, JUndef) >>

\* the handler has let the topic of r through to the engine
PassedValidation(r) ==
    \/ calls[r] # <<>>
    \/ /\ ~apiKey
       /\ Len(sent[r]) = 1
       /\ sent[r][1].error = << "OPENROUTER_API_KEY not configured" >>

--------------------------------------------------------------------------
(* C11 *)

\* C11 as stated: every string topic whose trimmed length is between 3 and
\* 200 and whose characters are all allow-listed is valid, with the trimmed
\* input as its topic, and the handler lets it through.
C11_ValidUpTo200 ==
    \A r \in Reqs :
        ( /\ StringTopic(r)
          /\ pc[r] # "new"
          /\ AllowListed(body[r].topic.c)
          /\ TrimmedLength(body[r].topic.c) \in 3 .. 200 )
            => /\ validateTopic(body[r].topic).valid
               /\ IsTrimOf(validateTopic(body[r].topic).topic, body[r].topic.c)
               /\ PassedValidation(r)

\* C11 amended: every string topic whose trimmed length is between 3 and
\* 100 and whose characters are all allow-listed is valid, with the trimmed
\* input as its topic, and the handler lets it through to the engine;
\* above 100 it is rejected as too long.
C11_ValidUpTo100 ==
    \A r \in Reqs :
        /\ ( /\ StringTopic(r)
             /\ AllowListed(body[r].topic.c)
             /\ TrimmedLength(body[r].topic.c) \in 3 .. 100 )
               => /\ validateTopic(body[r].topic).valid
                  /\ validateTopic(body[r].topic).error = ""
                  /\ IsTrimOf(validateTopic(body[r].topic).topic, body[r].topic.c)
                  /\ pc[r] # "new" => PassedValidation(r)
        /\ ( /\ StringTopic(r)
             /\ AllowListed(body[r].topic.c)
             /\ TrimmedLength(body[r].topic.c) > 100 )
               => /\ ~validateTopic(body[r].topic).valid
                  /\ pc[r] # "new"
                        => Answered400(r, "Topic must be less than 100 characters")

\* a topic of exactly 100 allow-listed characters between whitespace went
\* through to the first model
C11_Witness ==
    /\ body[1].topic = TStr(<< Run("sp", 2), Run("a", 100), Run("sp", 1) >>)
    /\ pc[1] = "fetch"
    /\ calls[1] = << MODEL_FALLBACK_LIST[1] >>

--------------------------------------------------------------------------
(* C12 *)

\* C12 as stated: every string topic that holds a character outside the
\* allow-list is rejected with 'Topic contains invalid characters',
\* whatever its length.
C12_InvalidCharsAlways ==
    \A r \in Reqs :
        (StringTopic(r) /\ pc[r] # "new" /\ HasInvalidChar(body[r].topic.c))
            => /\ ~validateTopic(body[r].topic).valid
               /\ validateTopic(body[r].topic).error = "Topic contains invalid characters"
               /\ Answered400(r, "Topic contains invalid characters")

\* C12 amended: a string topic that holds a character outside the
\* allow-list is always rejected; with 'Topic contains invalid characters'
\* exactly when its trimmed length is between 3 and 100, with the
\* too-short reason below 3 and the too-long reason above 100.
C12_InvalidCharsAfterLength ==
    \A r \in Reqs :
        (StringTopic(r) /\ HasInvalidChar(body[r].topic.c))
            => LET n == TrimmedLength(body[r].topic.c)
                   reason == IF n < 3 THEN "Topic must be at least 3 characters long"
                             ELSE IF n > 100 THEN "Topic must be less than 100 characters"
                             ELSE "Topic contains invalid characters"
               IN  /\ ~validateTopic(body[r].topic).valid
                   /\ validateTopic(body[r].topic).error = reason
                   /\ pc[r] # "new" => Answered400(r, reason)

\* 'ab!' was answered 400 for its characters
C12_Witness ==
    /\ body[1].topic = TStr(<< Run("a", 2), Run("x", 1) >>)
    /\ pc[1] = "done"
    /\ Answered400(1, "Topic contains invalid characters")

--------------------------------------------------------------------------
(* C13 *)

LengthReasons ==
    { "Topic must be at least 3 characters long",
      "Topic must be less than 100 characters" }

\* C13 as stated: every string topic whose trimmed length is below 3, the
\* empty string and strings of whitespace included, or above the maximum is
\* rejected with a length reason, never with the missing-or-wrong-type one.
C13_LengthReasonForEveryString ==
    \A r \in Reqs :
        ( /\ StringTopic(r)
          /\ pc[r] # "new"
          /\ (TrimmedLength(body[r].topic.c) < 3 \/ TrimmedLength(body[r].topic.c) > 100) )
            => /\ ~validateTopic(body[r].topic).valid
               /\ validateTopic(body[r].topic).error \in LengthReasons
               /\ \E reason \in LengthReasons : Answered400(r, reason)

\* C13 amended: every string topic of at least one character whose trimmed
\* length is below 3 (strings of whitespace included) is rejected with the
\* too-short reason, and above 100 with the too-long reason; the empty
\* string is rejected with the missing-or-wrong-type reason.
C13_LengthReasonUnlessEmpty ==
    \A r \in Reqs :
        ( /\ StringTopic(r)
          /\ (TrimmedLength(body[r].topic.c) < 3 \/ TrimmedLength(body[r].topic.c) > 100) )
            => LET reason ==
                       IF body[r].topic.c = <<>>
                       THEN "Topic is required and must be a string"
                       ELSE IF TrimmedLength(body[r].topic.c) < 3
                       THEN "Topic must be at least 3 characters long"
                       ELSE "Topic must be less than 100 characters"
               IN  /\ ~validateTopic(body[r].topic).valid
                   /\ validateTopic(body[r].topic).error = reason
                   /\ pc[r] # "new" => Answered400(r, reason)

\* a topic of two whitespace characters was answered 400 as too short
C13_Witness ==
    /\ body[1].topic = TStr(<< Run("sp", 2) >>)
    /\ pc[1] = "done"
    /\ Answered400(1, "Topic must be at least 3 characters long")

--------------------------------------------------------------------------
(* The Question-Set Validator on a family of question sets: five good      *)
(* records with the records at two places replaced by variants.  The       *)
(* first model answers 200 with the set as its text, and lines 225-226     *)
(* apply extractJSON and validateQuestions to it.                          *)

MixedOptions == JArr(<< JStr("A"), JNum(14), JNull, JObj(<<>>) >>)
ThreeOptions == JArr(<< JStr("A"), JStr("B"), JStr("C") >>)

RecordVariants ==
    { GoodQuestion("QA"),
      Question(JStr("QA"), FourOptions, JInt(3), JStr("E")),
      Question(JStr(""), FourOptions, JInt(0), JStr("E")),
      JObj(<< Member("options", FourOptions), Member("correct", JInt(0)),
              Member("explanation", JStr("E")) >>),
      Question(JStr("QA"), ThreeOptions, JInt(0), JStr("E")),
      Question(JStr("QA"), JStr("ABCD"), JInt(0), JStr("E")),
      Question(JStr("QA"), MixedOptions, JInt(0), JStr("E")),
      Question(JStr("QA"), FourOptions, JInt(4), JStr("E")),
      Question(JStr("QA"), FourOptions, JStr("1"), JStr("E")),
      Question(JStr("QA"), FourOptions, JNum(3), JStr("E")),
      Question(JStr("QA"), FourOptions, JInt(0), JNull),
      Question(JNum(2), FourOptions, JInt(4), JStr("E")),
      Question(JStr("QA"), ThreeOptions, JInt(0), JStr("")),
      Question(JStr("QA"), FourOptions, JNum(-2), JNum(0)),
      Question(JStr("QA"), MixedOptions, JNum(3), JStr("E")),
      JNull,
      JInt(7) }

\* the sequence a with its p-th element replaced by q
Replace(a, p, q) == [a EXCEPT ![p] = q]

QuestionFamily ==
    { JArr(Replace(Replace(Copies(GoodQuestion("QA"), 5), p1, v1), p2, v2)) :
        p1 \in 1 .. 5, p2 \in 1 .. 5, v1 \in RecordVariants, v2 \in RecordVariants }

QuestionReplies ==
    { Says(Stringify(set), set) : set \in QuestionFamily \cup {SetFour, SetSix} }

QuestionsInit ==
    /\ apiKey = TRUE
    /\ body = [r \in Reqs |-> IF r = 1 THEN ReqBody("object", TopicPadded) ELSE NoBody]
    /\ pc = [r \in Reqs |-> IF r = 1 THEN "new" ELSE "off"]
    /\ i = [r \in Reqs |-> 0]
    /\ lastError = [r \in Reqs |-> NoError]
    /\ timer = [r \in Reqs |-> {}]
    /\ httpStatus = [r \in Reqs |-> 0]
    /\ calls = [r \in Reqs |-> <<>>]
    /\ failed = [r \in Reqs |-> <<>>]
    /\ sent = [r \in Reqs |-> <<>>]
    /\ reply = [r \in Reqs |-> Reply(<<>>, JUndef)]

QuestionsNext ==
    \/ Start(1)
    \/ FetchResolve(1, {200})
    \/ JsonResolve(1, QuestionReplies)

QuestionsSpec == QuestionsInit /\ [][QuestionsNext]_vars

\* the fields of a Question Record as the data model has them
NonEmptyString(v) == v.t = "string" /\ v.s # ""
FourStrings(v) ==
    /\ v.t = "array"
    /\ Len(v.a) = 4
    /\ \A n \in 1 .. 4 : v.a[n].t = "string"
IntegerIndex(v) == v.t = "number" /\ v.h \in {0, 2, 4, 6}

\* the first field of record q that violates the data model, in the order
\* question, options, correct, explanation; "none" when q is well formed
FirstViolation(q) ==
    IF ~NonEmptyString(Prop(q, "question")) THEN "question"
    ELSE IF ~FourStrings(Prop(q, "options")) THEN "options"
    ELSE IF ~IntegerIndex(Prop(q, "correct")) THEN "correct"
    ELSE IF ~NonEmptyString(Prop(q, "explanation")) THEN "explanation"
    ELSE "none"

\* the records of set a that violate the data model
Violating(a) == { n \in 1 .. Len(a) : FirstViolation(a[n]) # "none" }

\* the validator's message for a violated field of the record at place n
FieldMessage(n, field) ==
    << "Question", ToString(n), ":",
       CASE field = "question" -> "Missing or invalid 'question' field"
         [] field = "options"  -> "Must have exactly 4 options"
         [] field = "correct"  -> "'correct' must be 0, 1, 2, or 3"
         [] OTHER              -> "Missing or invalid 'explanation' field" >>

\* the first model of r has answered with a set of five records
FiveRecordsAnswered(r) ==
    /\ pc[r] = "done"
    /\ Len(calls[r]) = 1
    /\ reply[r].carries.t = "array"
    /\ Len(reply[r].carries.a) = 5

\* the answer of r was rejected: the attempt failed and r got an error
Rejected(r) ==
    /\ Len(failed[r]) = 1
    /\ Len(sent[r]) = 1
    /\ ~sent[r][1].success

--------------------------------------------------------------------------
(* C14 *)

\* C14: a set in which some record's correct is not an integer from 0 to 3
\* is rejected, a number such as 1.5 like any other value, so that in every
\* accepted set correct indexes an element of options.
C14_NonIntegerCorrectRejected ==
    \A r \in Reqs :
        FiveRecordsAnswered(r) =>
            /\ (\E n \in 1 .. 5 : ~IntegerIndex(Prop(reply[r].carries.a[n], "correct")))
                  => Rejected(r)
            /\ \A m \in 1 .. Len(sent[r]) :
                  sent[r][m].success =>
                      \A n \in 1 .. Len(sent[r][m].questions.a) :
                          LET q == sent[r][m].questions.a[n] IN
                          /\ IntegerIndex(Prop(q, "correct"))
                          /\ (Prop(q, "correct").h \div 2) + 1
                                 \in 1 .. Len(Prop(q, "options").a)

--------------------------------------------------------------------------
(* C15 *)

\* C15: a set in which some record's options is not a sequence of exactly
\* four strings is rejected, and when that is the first violation of the
\* set the error is the options error of that record.
C15_NonStringOptionRejected ==
    \A r \in Reqs :
        ( /\ FiveRecordsAnswered(r)
          /\ \E n \in 1 .. 5 : ~FourStrings(Prop(reply[r].carries.a[n], "options")) )
            => /\ Rejected(r)
               /\ LET a == reply[r].carries.a
                      n == Min(Violating(a))
                  IN  FirstViolation(a[n]) = "options"
                          => sent[r][1].error = FieldMessage(n, "options")

--------------------------------------------------------------------------
(* C20 *)

\* C20: a set of five records with one or more violations is rejected with
\* one error, that of the first violated field of the lowest violating
\* record, naming that record; a well-formed set of five passes.
C20_FailFast ==
    \A r \in Reqs :
        FiveRecordsAnswered(r) =>
            LET a == reply[r].carries.a IN
            IF Violating(a) = {}
            THEN /\ failed[r] = <<>>
                 /\ Len(sent[r]) = 1
                 /\ sent[r][1].success
                 /\ sent[r][1].questions = reply[r].carries
            ELSE /\ Rejected(r)
                 /\ sent[r][1].error
                        = FieldMessage(Min(Violating(a)), FirstViolation(a[Min(Violating(a))]))

--------------------------------------------------------------------------
(* Concurrent requests: every request slot holds a request, and the steps  *)
(* of the requests interleave at their awaits.                             *)

ConcBodies ==
    { ReqBody("object", TopicPadded), ReqBody("object", TStr(<< Run("a", 2) >>)) }

ConcReplies ==
    { Says(Stringify(SetA), SetA),
      Says(Stringify(SetB), SetB),
      Says(<< Word("Sorry"), WS, Word("no") >>, JUndef) }

ConcInit ==
    /\ apiKey \in BOOLEAN
    /\ body \in [Reqs -> ConcBodies]
    /\ pc = [r \in Reqs |-> "new"]
    /\ i = [r \in Reqs |-> 0]
    /\ lastError = [r \in Reqs |-> NoError]
    /\ timer = [r \in Reqs |-> {}]
    /\ httpStatus = [r \in Reqs |-> 0]
    /\ calls = [r \in Reqs |-> <<>>]
    /\ failed = [r \in Reqs |-> <<>>]
    /\ sent = [r \in Reqs |-> <<>>]
    /\ reply = [r \in Reqs |-> Reply(<<>>, JUndef)]

ConcStep(r) ==
    \/ Start(r)
    \/ FetchAbort(r)
    \/ FetchResolve(r, {200})
    \/ JsonResolve(r, ConcReplies)

ConcNext == \E r \in Reqs : ConcStep(r)

ConcSpec == ConcInit /\ [][ConcNext]_vars

\* everything the model keeps for request r
Fields(r) ==
    << body[r], pc[r], i[r], lastError[r], timer[r], httpStatus[r], calls[r],
       failed[r], reply[r], sent[r] >>

--------------------------------------------------------------------------
(* C16 *)

\* C16: in any interleaving of concurrent requests, a step of one request
\* leaves every other request and the configuration as they are; the
\* models a request attempts are the first of the list, one more than its
\* own failures while its run goes on; and its response is determined by
\* its own topic, the configuration and the answers to its own calls: 400
\* with its validator's reason, the configuration error, its own last
\* error, or its own topic trimmed with the questions of its own reply.
C16_RequestsDoNotInteract ==
    /\ [][ /\ apiKey' = apiKey
           /\ \E r \in Reqs : \A q \in Reqs \ {r} : Fields(q)' = Fields(q) ]_vars
    /\ [](\A r \in Reqs :
             /\ calls[r] = SubSeq(MODEL_FALLBACK_LIST, 1, Len(calls[r]))
             /\ pc[r] \in {"fetch", "text", "json"}
                   => (Len(calls[r]) = Len(failed[r]) + 1 /\ i[r] = Len(failed[r]))
             /\ pc[r] = "done" =>
                   IF ~validateTopic(body[r].topic).valid
                   THEN Answered400(r, validateTopic(body[r].topic).error)
                   ELSE IF ~apiKey
                   THEN /\ calls[r] = <<>>
                        /\ sent[r] = << Response(500, FALSE,
                                           << "OPENROUTER_API_KEY not configured" >>,
                                           <<>>, 0, JUndef) >>
                   ELSE IF Succeeded(r)
                   THEN sent[r] = << Response(200, TRUE, <<>>,
                                              << Run("a", 6), Run("sp", 1), Run("a", 7) >>,
                                              5, reply[r].carries) >>
                   ELSE /\ Exhausted(r)
                        /\ sent[r] = << Response(Classified(lastError[r].message), FALSE,
                                                 lastError[r].message, <<>>, 0, JUndef) >>
                        /\ Last(failed[r]) = "timeout" => Len(calls[r]) = K
                        /\ Last(failed[r]) # "timeout"
                              => (reply[r].carries = JUndef
                                    /\ lastError[r].message
                                         = << "No valid JSON found in response" >>))

\* request 1 was answered with the questions of its second model while
\* request 2 is still reading the answer of its first
C16_Witness ==
    /\ pc[1] = "done"
    /\ failed[1] = << "timeout" >>
    /\ sent[1][1].questions = SetB
    /\ pc[2] = "json"
    /\ i[2] = 0
    /\ reply[2] = Reply(<<>>, JUndef)

--------------------------------------------------------------------------
(* An upstream that may stall: the handler's own steps and the abort timer *)
(* are scheduled by the event loop and happen when they can; an answer of  *)
(* the upstream (the response, its body) may never come.                   *)

StallSpec ==
    /\ Spec
    /\ WF_vars(RejectBody(1))
    /\ WF_vars(Start(1))
    /\ WF_vars(FetchAbort(1))

\* the n-th attempt of r is in flight
InFlight(r, n) == pc[r] \in {"fetch", "text", "json"} /\ Len(calls[r]) = n

--------------------------------------------------------------------------
(* C17 *)

\* C17: every attempt is bounded by its timeout from the call of fetch
\* until the content of the response is there: also when the upstream
\* stalls, before the response or while its body is read, the attempt
\* ends, so no attempt stays in flight forever.
C17_AttemptBoundedByTimeout ==
    \A r \in Reqs, n \in 1 .. K : InFlight(r, n) ~> ~InFlight(r, n)

--------------------------------------------------------------------------
(* C18 *)

\* the calls of r that have been issued and have not ended
Outstanding(r) ==
    Len(calls[r]) - Len(failed[r])
        - (IF pc[r] = "done" /\ sent[r] # <<>> /\ sent[r][1].success THEN 1 ELSE 0)

\* C18: within one request at most one call is in flight at any moment,
\* and a call is issued only in the step in which the attempt before it
\* ends in failure: the first in the step that starts the run, the call
\* to model n+1 in the step that logs the failure of the attempt on model n.
C18_AttemptsSequential ==
    /\ [](\A r \in Reqs :
             /\ Outstanding(r) \in {0, 1}
             /\ Outstanding(r) = 1 <=> pc[r] \in {"fetch", "text", "json"})
    /\ [][ \A r \in Reqs :
              calls'[r] # calls[r] =>
                  /\ Outstanding(r)' = 1
                  /\ calls'[r] = Append(calls[r], MODEL_FALLBACK_LIST[Len(calls[r]) + 1])
                  /\ Len(failed'[r]) = Len(calls[r])
                  /\ calls[r] # <<>> =>
                        /\ pc[r] \in {"fetch", "text", "json"}
                        /\ failed'[r] = Append(failed[r], Last(failed'[r]))
                  /\ calls[r] = <<>> => pc[r] = "new" ]_vars

\* the third model is being called after the first two have failed, one
\* by its timer and one by its status
C18_Witness ==
    /\ pc[1] = "fetch"
    /\ calls[1] = SubSeq(MODEL_FALLBACK_LIST, 1, 3)
    /\ failed[1] = << "timeout", "http" >>
    /\ timer[1] = {3}

--------------------------------------------------------------------------
(* C19 *)

\* C19: a run of the engine calls the models in the order of the list,
\* from the first, each at most once, so at most K calls; once the run is
\* over no call is issued; and, every await settling, a run that has
\* called its first model ends Succeeded or with the failure of its last
\* attempt (the run of request 1, the one request that arrives).
C19_TerminatesWithinK ==
    /\ [](\A r \in Reqs :
             /\ Len(calls[r]) <= K
             /\ \A n \in 1 .. Len(calls[r]) : calls[r][n] = MODEL_FALLBACK_LIST[n]
             /\ \A m, n \in 1 .. Len(calls[r]) : calls[r][m] = calls[r][n] => m = n)
    /\ [][ \A r \in Reqs :
              (Succeeded(r) \/ Exhausted(r))
                  => /\ calls'[r] = calls[r]
                     /\ (Succeeded(r)' \/ Exhausted(r)') ]_vars
    /\ (calls[1] # <<>>) ~> (Succeeded(1) \/ Exhausted(1))

\* all five models were called, each once, and each timed out
C19_Witness ==
    /\ Exhausted(1)
    /\ calls[1] = MODEL_FALLBACK_LIST
    /\ failed[1] = [n \in 1 .. K |-> "timeout"]
    /\ sent[1][1].status = 504

--------------------------------------------------------------------------
(* The JSON Extractor over a family of texts: a payload, bare or inside a *)
(* fenced code block, with or without text before and after it            *)

Payloads ==
    { [toks |-> Stringify(SetA), carries |-> SetA],
      [toks |-> Stringify(SetFour), carries |-> SetFour],
      [toks |-> Stringify(GoodQuestion("QA")), carries |-> GoodQuestion("QA")],
      [toks |-> << LBRACK, RBRACK >>, carries |-> JArr(<<>>)],
      [toks |-> << LBRACK >> \o Stringify(GoodQuestion("QA")) \o << COMMA, RBRACK >>,
       carries |-> JUndef],
      [toks |-> << Word("Sorry"), WS, Word("no") >>, carries |-> JUndef] }

Befores == { <<>>, << Word("Sure"), WS >>, << LBRACK, Word("note"), RBRACK, WS >> }
Afters == { <<>>, << WS, Word("Enjoy") >>, << WS, LBRACE, Word("end"), RBRACE >> }
Openers == { <<>>, << FENCE >>, << FENCE, Word("json"), WS >> }

\* the payload inside the block that opener opens, or bare
Wrapped(opener, toks) ==
    IF opener = <<>> THEN toks ELSE opener \o toks \o << WS, FENCE >>

ExtractReplies ==
    { Says(before \o Wrapped(opener, p.toks) \o after, p.carries) :
        before \in Befores, opener \in Openers, p \in Payloads, after \in Afters }
    \cup { Reply(<< Choice(CObject) >>, JUndef) }

ExtractNext ==
    \/ Start(1)
    \/ FetchResolve(1, {200})
    \/ JsonResolve(1, ExtractReplies)

\* src/server.js answering one request from the family of texts
ExtractSpec == QuestionsInit /\ [][ExtractNext]_vars

--------------------------------------------------------------------------
(* The single-model server of src/unnamed/part_000, lines 1-225: its      *)
(* extractJSON, lines 41-52, has two steps, and generateQuestions, lines  *)
(* 88-171, calls one model                                                *)

\* text.match(/(\[[\s\S]*\])/)
arrayMatch(t) ==
    LET starts == { p \in 1 .. Len(t) : t[p].k = "[" /\ BracketEnds(t, p) # {} } IN
    IF starts = {} THEN NoMatch
    ELSE LET p == Min(starts) IN Match(TRUE, SubSeq(t, p, Max(BracketEnds(t, p))))

\* lines 41-52: the second JSON.parse is outside any try block
extractJSONPart000(text) ==
    LET whole == JSONparse(StringOf(text)) IN
    IF whole.ok THEN Outcome(TRUE, whole.v, NoError, 1)
    ELSE IF text.t # "string"
    THEN Outcome(FALSE, JUndef,
                 Err("TypeError", << "text.match is not a function" >>, "match"), 0)
    ELSE LET jm == arrayMatch(text.toks) IN
         IF ~jm.found
         THEN Outcome(FALSE, JUndef,
                      Err("Error", << "No valid JSON found in response" >>,
                          "extractJSON"), 0)
         ELSE LET bare == JSONparse(jm.group) IN
              IF bare.ok THEN Outcome(TRUE, bare.v, NoError, 3)
              ELSE Outcome(FALSE, JUndef,
                           Err("SyntaxError", << "Unexpected token in JSON" >>,
                               "parse"), 0)

\* lines 56-84: the checks of validateQuestions with this file's messages
FieldTextPart000(site) ==
    CASE site = "question"    -> "Invalid question"
      [] site = "options"     -> "Must have 4 options"
      [] site = "correct"     -> "Invalid correct index"
      [] OTHER                -> "Invalid explanation"

validateQuestionsPart000(questions) ==
    LET thrown == validateQuestions(questions) IN
    IF thrown.site \in {"question", "options", "correct", "explanation"}
    THEN Err("Error",
             << thrown.message[1], thrown.message[2], thrown.message[3],
                FieldTextPart000(thrown.site) >>, thrown.site)
    ELSE thrown

\* lines 149-170: from the parsed body of an ok response to the questions
\* returned or the error thrown
generateQuestionsResult(data) ==
    LET content == ContentOf(data) IN
    IF ContentFalsy(content)
    THEN Outcome(FALSE, JUndef, Err("Error", << "Empty AI response" >>, "empty"), 0)
    ELSE LET questions == extractJSONPart000(content) IN
         IF ~questions.ok THEN Outcome(FALSE, JUndef, questions.err, 0)
         ELSE LET thrown == validateQuestionsPart000(questions.v) IN
              IF thrown # NoError THEN Outcome(FALSE, JUndef, thrown, 0)
              ELSE Outcome(TRUE, questions.v, NoError, questions.path)

\* lines 204-211: the catch block of the handler
ErrorResponsePart000(error) ==
    Response(500, FALSE, error.message, <<>>, 0, JUndef)

\* line 132
MODEL_PART000 == "google/gemma-3n-e4b-it:free"

\* POST /generate arrives: lines 183-195 and 88-140, up to the await of fetch
GenerateStart(r) ==
    /\ pc[r] = "new"
    /\ body[r].kind # "malformed"
    /\ LET validation == validateTopic(body[r].topic) IN
       IF body[r].kind # "object"
       THEN Respond(r, ErrorResponsePart000(DestructureError), timer[r])
            /\ UNCHANGED calls
       ELSE IF ~validation.valid
       THEN Respond(r, ValidationResponse(validation), timer[r]) /\ UNCHANGED calls
       ELSE IF KeyMissing(apiKey)
       THEN Respond(r, ErrorResponsePart000(ConfigurationError), timer[r])
            /\ UNCHANGED calls
       ELSE /\ pc' = [pc EXCEPT ![r] = "fetch"]
            /\ timer' = [timer EXCEPT ![r] = setTimeout(@, 1)]
            /\ calls' = [calls EXCEPT ![r] = Append(@, MODEL_PART000)]
            /\ httpStatus' = [httpStatus EXCEPT ![r] = 0]
            /\ UNCHANGED sent
    /\ UNCHANGED <<apiKey, body, i, lastError, failed, reply>>

\* response.json() resolves: lines 149-170, and lines 197-211 of the handler
GenerateJsonResolve(r, replies) ==
    /\ pc[r] = "json"
    /\ \E data \in replies :
          /\ reply' = [reply EXCEPT ![r] = data]
          /\ LET result == generateQuestionsResult(data) IN
             IF result.ok
             THEN /\ Respond(r, Response(200, TRUE, <<>>,
                                         validateTopic(body[r].topic).topic,
                                         Length(result.v), result.v), timer[r])
                  /\ UNCHANGED failed
             ELSE /\ Respond(r, ErrorResponsePart000(result.err),
                             clearTimeout(timer[r], 1))
                  /\ failed' = [failed EXCEPT ![r] = Append(@, result.err.site)]
    /\ UNCHANGED <<apiKey, body, i, lastError, calls>>

\* the step from the response of fetch to the read of its body, lines
\* 142-149, is that of src/server.js, lines 209-217
Part000Next ==
    \/ GenerateStart(1)
    \/ FetchResolve(1, {200})
    \/ GenerateJsonResolve(1, ExtractReplies)

\* the single-model server answering one request from the family of texts
Part000Spec == QuestionsInit /\ [][Part000Next]_vars

--------------------------------------------------------------------------
(* C21 *)

NoValidJSON == << "No valid JSON found in response" >>

\* the three parses of the text of request r's reply, in their order
StrictWhole(r) == JSONparse(StringOf(ContentOf(reply[r])))
StrictFenced(r) ==
    LET cb == codeBlockMatch(StringOf(ContentOf(reply[r]))) IN
    IF cb.found THEN JSONparse(cb.group) ELSE ParseFail
StrictGreedy(r) ==
    LET jm == jsonMatch(StringOf(ContentOf(reply[r]))) IN
    IF jm.found THEN JSONparse(jm.group) ELSE ParseFail

AllThreeFail(r) == ~StrictWhole(r).ok /\ ~StrictFenced(r).ok /\ ~StrictGreedy(r).ok

FirstSuccess(r) ==
    IF StrictWhole(r).ok THEN StrictWhole(r).v
    ELSE IF StrictFenced(r).ok THEN StrictFenced(r).v
    ELSE StrictGreedy(r).v

\* request r has been answered after its reply's text went to extractJSON
Extracted(r) ==
    /\ pc[r] = "done"
    /\ sent[r] # <<>>
    /\ ~ContentFalsy(ContentOf(reply[r]))

\* the call of extractJSON threw
ExtractionThrew(r) ==
    /\ failed[r] # <<>>
    /\ Last(failed[r]) \in {"extractJSON", "match", "parse"}

\* the text is nothing but a fenced block around the array the upstream
\* wrote, and that array is a valid question set
FencedValidArray(r) ==
    /\ ContentOf(reply[r]).t = "string"
    /\ \E opener \in Openers \ {<<>>} :
          ContentOf(reply[r]).toks = Wrapped(opener, Stringify(reply[r].carries))
    /\ validateQuestions(reply[r].carries) = NoError

\* C21: extractJSON fails exactly when the strict parse of the whole text,
\* of the fenced block and of the greedy bracket/brace match all fail, and
\* then with 'No valid JSON found in response' and with no other error;
\* otherwise the value is that of the first of the three that succeeds, so
\* that a fenced block around a valid array yields that array
C21_ThreeStepsOneError ==
    \A r \in Reqs :
        Extracted(r) =>
            /\ (ExtractionThrew(r) <=> AllThreeFail(r))
            /\ (ExtractionThrew(r) => Last(sent[r]).error = NoValidJSON)
            /\ (Last(sent[r]).success => Last(sent[r]).questions = FirstSuccess(r))
            /\ (FencedValidArray(r) =>
                    /\ Last(sent[r]).success
                    /\ Last(sent[r]).questions = reply[r].carries)

--------------------------------------------------------------------------
(* Two requests in flight together, each attempt ending in every way it   *)
(* can: answered, refused with a status, with an empty, unparsable or     *)
(* short answer, cut off, or aborted by its timer                         *)

TimerPair == {1, 2}

TimerReplies ==
    { Says(Stringify(SetA), SetA),
      Says(<<>>, JUndef),
      Says(<< Word("Sorry"), WS, Word("no") >>, JUndef),
      Says(Stringify(SetFour), SetFour) }

TimerInit ==
    /\ apiKey = TRUE
    /\ body = [r \in Reqs |-> IF r \in TimerPair THEN ReqBody("object", TopicPadded)
                                                ELSE NoBody]
    /\ pc = [r \in Reqs |-> IF r \in TimerPair THEN "new" ELSE "off"]
    /\ i = [r \in Reqs |-> 0]
    /\ lastError = [r \in Reqs |-> NoError]
    /\ timer = [r \in Reqs |-> {}]
    /\ httpStatus = [r \in Reqs |-> 0]
    /\ calls = [r \in Reqs |-> <<>>]
    /\ failed = [r \in Reqs |-> <<>>]
    /\ sent = [r \in Reqs |-> <<>>]
    /\ reply = [r \in Reqs |-> Reply(<<>>, JUndef)]

TimerStep(r) ==
    \/ Start(r)
    \/ FetchAbort(r)
    \/ FetchReject(r)
    \/ FetchResolve(r, {200, 500})
    \/ TextResolve(r, {<<>>})
    \/ BodyReject(r)
    \/ JsonResolve(r, TimerReplies)

TimerNext == \E r \in TimerPair : TimerStep(r)

TimerSpec == TimerInit /\ [][TimerNext]_vars

--------------------------------------------------------------------------
(* C22 *)

\* the step ends the attempt of request r that is in flight: it fails, or
\* it succeeds and the request is answered
AttemptEnds(r) ==
    /\ pc[r] \in {"fetch", "text", "json"}
    /\ \/ Len(failed'[r]) = Len(failed[r]) + 1
       \/ pc'[r] = "done"

\* the step ends an attempt of request r by a timeout
Aborted(r) ==
    /\ failed'[r] # failed[r]
    /\ Last(failed'[r]) = "timeout"

\* C22: the only timer of a request that is ever armed is that of the
\* attempt in flight, while its fetch is pending; the step that ends an
\* attempt, on whatever path, leaves the timer of that attempt disarmed;
\* and an attempt is aborted only while its own timer is armed and its own
\* fetch is pending, the step ending that one attempt and leaving every
\* other request as it is.
C22_TimerOwnAttemptOnly ==
    /\ [](\A r \in Reqs : \A id \in timer[r] : id = i[r] + 1 /\ pc[r] = "fetch")
    /\ [][\A r \in Reqs :
             /\ AttemptEnds(r) => (i[r] + 1) \notin timer'[r]
             /\ Aborted(r) =>
                   /\ pc[r] = "fetch"
                   /\ (i[r] + 1) \in timer[r]
                   /\ failed'[r] = Append(failed[r], "timeout")
                   /\ Len(calls'[r]) <= Len(calls[r]) + 1
                   /\ \A q \in Reqs \ {r} : Fields(q)' = Fields(q) ]_vars

\* the timer of request 1's first attempt fired and its second model
\* answered, while the first call of request 2 is still pending, its own
\* timer armed
C22_Witness ==
    /\ failed[1] = << "timeout" >>
    /\ pc[1] = "done"
    /\ Last(sent[1]).success
    /\ timer[1] = {}
    /\ pc[2] = "fetch"
    /\ i[2] = 0
    /\ timer[2] = {1}

==========================================================================
